---------------------------- MODULE Spec2Model ----------------------------
(***************************************************************************)
(* A model of the cycle-safe deepClone helper of src/inheritance.js        *)
(* (lines 707-722) and of the script statements around it (lines 724-727). *)
(*                                                                         *)
(* The JavaScript heap is a function from object identities (1, 2, ...)    *)
(* to containers.  A value is a record [t, v]: a primitive carries its     *)
(* type tag and payload, a reference carries t = "ref" and the identity of *)
(* the container it points to.  One deepClone invocation is one frame of   *)
(* `stack`; the WeakMap `seen` is a function from source identities to     *)
(* clone identities.                                                       *)
(***************************************************************************)
EXTENDS Integers, Sequences, FiniteSets, TLC

VARIABLES
    heap,    \* identity -> [kind, props]: every container allocated so far
    root,    \* the value V the script clones
    phase,   \* "ready", "running", "done", "threw" or "mutated"
    stack,   \* the active deepClone invocations, innermost last
    seen,    \* the WeakMap of the running top-level call
    arg,     \* the argument of the running (or last) top-level call
    calls,   \* the finished top-level calls, as [arg, ret] records
    allocs   \* <<source, clone>> for each container the running call allocated

\* The counters of src/unnamed/part_000 (lines 323-397).
VARIABLES
    counters,  \* the counter objects created so far: [kind, init, log]
    cells,     \* the variable `count` of each createCounter closure
    priv       \* the WeakMap _counterPrivate: counter object -> [count]

\* The handler chain of src/unnamed/part_001 (lines 966-1024).
VARIABLES
    handlers,   \* the handler objects created so far: [cls, next]
    request,    \* the argument of the running (or last) handle call
    thisHandler, \* the handler whose handle is running, 0 when none is
    consulted,  \* the handlers whose canHandle has been called, in order
    console,    \* the lines written by console.log: [text, by]
    hphase      \* "build", "running", "done" or "threw"

\* simulateNew of src/unnamed/part_000 (lines 73-77) beside the operator new.
VARIABLES
    fn,      \* the constructor function the script constructs with, or Undefined
    fnArgs,  \* the arguments it is given
    sim,     \* the simulateNew(fn, ...fnArgs) invocation: [pc, obj, result, out, ran]
    native   \* the new fn(...fnArgs) evaluation:         [pc, obj, result, out, ran]

\* safeMerge of src/inheritance.js (lines 1427-1434) and of
\* src/unnamed/part_001 (lines 152-158).
VARIABLES
    mcall,        \* the merge call: [version, target0, source], version "none" before it
    mtarget,      \* the target object: [proto, props]
    objectProto,  \* the enumerable properties added to Object.prototype
    mkeys,        \* the keys the for...in loop has still to visit
    massigned,    \* the keys assigned on the target so far, in order
    mpc           \* "idle", "loop", "done" or "threw"

\* deepFreeze of src/inheritance.js (lines 749-757).
VARIABLES
    objs,    \* identity -> [kind, props]: the objects of the script
    frozen,  \* the identities of the objects Object.freeze has been applied to
    fstack,  \* the active deepFreeze invocations, innermost last
    fphase,  \* "ready", "running", "done", "threw" or "written"
    fcall    \* the deepFreeze call: [frozen0, heap0, ret]

cloneVars == <<heap, root, phase, stack, seen, arg, calls, allocs>>
counterVars == <<counters, cells, priv>>
chainVars == <<handlers, request, thisHandler, consulted, console, hphase>>
newVars == <<fn, fnArgs, sim, native>>
mergeVars == <<mcall, mtarget, objectProto, mkeys, massigned, mpc>>
freezeVars == <<objs, frozen, fstack, fphase, fcall>>

vars == <<cloneVars, counterVars, chainVars, newVars, mergeVars, freezeVars>>

\* What the steps of each part of the repository leave alone.
notClone == <<counterVars, chainVars, newVars, mergeVars, freezeVars>>
notCounter == <<cloneVars, chainVars, newVars, mergeVars, freezeVars>>
notChain == <<cloneVars, counterVars, newVars, mergeVars, freezeVars>>
notNew == <<cloneVars, counterVars, chainVars, mergeVars, freezeVars>>
notMerge == <<cloneVars, counterVars, chainVars, newVars, freezeVars>>
notFreeze == <<cloneVars, counterVars, chainVars, newVars, mergeVars>>

---------------------------------------------------------------------------
(* Bounds of the model *)

\* Containers in the source graph V.
MaxNodes == 3
\* Property slots (array elements plus object fields) in the whole of V.
MaxSlots == 3
\* Top-level deepClone calls the script makes.
MaxCalls == 2
\* Frames the engine's call stack holds before it raises a RangeError.
MaxDepth == 6

---------------------------------------------------------------------------
(* Values *)

Ref(id) == [t |-> "ref", v |-> id]
Null == [t |-> "null", v |-> 0]
Undefined == [t |-> "undefined", v |-> 0]
Num(n) == [t |-> "number", v |-> n]
Str(s) == [t |-> "string", v |-> s]
Bool(b) == [t |-> "boolean", v |-> b]
\* A function value: typeof answers "function" for it.
Fn == [t |-> "function", v |-> 0]

\* The values other than containers the script may hand to deepClone.
Prims == {Null, Undefined, Num(5), Str("x"), Bool(TRUE), Fn}
\* The primitives that occur at the leaves of V.
LeafPrims == {Null, Num(3)}

IsRef(val) == val.t = "ref"

EmptyMap == [x \in {} |-> 0]

\* typeof value: null and every container answer "object".
TypeOf(val) ==
    IF val.t \in {"ref", "null"} THEN "object" ELSE val.t

---------------------------------------------------------------------------
(* The operations deepClone performs, one operator per expression *)

\* The check without its null test: typeof value !== 'object'
IsPrimitiveNoNull(val) == TypeOf(val) # "object"

\* value === null || typeof value !== 'object'
IsPrimitive(val) == val = Null \/ TypeOf(val) # "object"

\* A lookup that never finds anything.
SeenHasNever(s, val) == FALSE

\* seen.has(value)
SeenHas(s, val) == IsRef(val) /\ val.v \in DOMAIN s

\* Line 709 returning the source container: return value
SeenGetSource(s, val) == val

\* seen.get(value)
SeenGet(s, val) == Ref(s[val.v])

\* A default that keeps one map for every call, evaluated once.
DefaultSeenKept(s) == s

\* The default parameter seen = new WeakMap(), evaluated at each call that
\* passes no map; s is the map of the call before.
DefaultSeen(s) == EmptyMap

\* Array.isArray(value)
IsArray(h, val) == h[val.v].kind = "array"

\* Allocation without the Array.isArray branch: always const out = {}
NewContainerObject(h, val) == [kind |-> "object", props |-> <<>>]

\* Allocation with the branches exchanged: if (!Array.isArray(value))
NewContainerInverted(h, val) ==
    [kind |-> IF h[val.v].kind = "array" THEN "object" ELSE "array", props |-> <<>>]

\* const arr = []  /  const out = {}
NewContainer(h, val) ==
    [kind |-> IF IsArray(h, val) THEN "array" ELSE "object", props |-> <<>>]

\* A call without the registration.
SeenSetNothing(s, val, id) == s

\* The registration of the source under itself: seen.set(value, value)
SeenSetSelf(s, val, id) == (val.v :> val.v) @@ s

\* seen.set(value, arr)  /  seen.set(value, out)
SeenSet(s, val, id) == (val.v :> id) @@ s

\* Object.keys(value): the own enumerable string keys, in order.
ObjectKeys(h, val) == [j \in 1..Len(h[val.v].props) |-> h[val.v].props[j].k]

\* value[key]
GetProp(node, key) ==
    IF \E j \in 1..Len(node.props) : node.props[j].k = key
    THEN node.props[CHOOSE j \in 1..Len(node.props) : node.props[j].k = key].v
    ELSE Undefined

\* arr.unshift(x)
PushFront(node, x) ==
    [node EXCEPT !.props =
        [j \in 1..(Len(@) + 1) |->
            [k |-> ToString(j - 1), v |-> IF j = 1 THEN x ELSE @[j - 1].v]]]

\* arr.push(x)
Push(node, x) ==
    [node EXCEPT !.props = Append(@, [k |-> ToString(Len(@)), v |-> x])]

\* out[key] = x
Assign(node, key, x) ==
    IF \E j \in 1..Len(node.props) : node.props[j].k = key
    THEN [node EXCEPT !.props =
            [j \in 1..Len(@) |-> IF @[j].k = key THEN [k |-> key, v |-> x] ELSE @[j]]]
    ELSE [node EXCEPT !.props = Append(@, [k |-> key, v |-> x])]

\* The container a reference designates.
Deref(h, val) == h[val.v]

\* A frame that has just been entered, before line 708 runs.
EntryFrame(val) ==
    [value |-> val, pc |-> "entry", out |-> Undefined, keys |-> <<>>, i |-> 0]

\* Whether the loop of a frame (line 713 or line 718) has another iteration.
HasNext(h, f) ==
    IF IsArray(h, f.value)
    THEN f.i <= Len(Deref(h, f.value).props)
    ELSE f.i <= Len(f.keys)

\* The child value the next iteration hands to the recursive call.
NextChild(h, f) ==
    IF IsArray(h, f.value)
    THEN Deref(h, f.value).props[f.i].v
    ELSE GetProp(Deref(h, f.value), f.keys[f.i])

\* The store aimed at the source: value.push(ret), value[key] = ret
StoreIntoSource(h, f, ret) ==
    IF h[f.value.v].kind = "array"
    THEN [h EXCEPT ![f.value.v] = [@ EXCEPT !.props = Append(@, [k |-> ToString(Len(@)), v |-> ret])]]
    ELSE [h EXCEPT ![f.value.v] =
            [@ EXCEPT !.props = [j \in 1..Len(@) |->
                IF @[j].k = f.keys[f.i] THEN [k |-> @[j].k, v |-> ret] ELSE @[j]]]]

\* The heap after the caller stores a returned value: arr.push(ret) on line
\* 713, out[key] = ret on line 719.
Store(h, f, ret) ==
    IF IsArray(h, f.value)
    THEN [h EXCEPT ![f.out.v] = Push(@, ret)]
    ELSE [h EXCEPT ![f.out.v] = Assign(@, f.keys[f.i], ret)]

---------------------------------------------------------------------------
(* Graph helpers *)

RECURSIVE Visit(_, _, _)
RECURSIVE VisitProps(_, _, _, _)
\* The containers reachable from identity id, appended to acc in the order
\* a depth-first traversal first meets them.
Visit(h, id, acc) ==
    IF \E j \in 1..Len(acc) : acc[j] = id
    THEN acc
    ELSE VisitProps(h, id, 1, Append(acc, id))
VisitProps(h, id, j, acc) ==
    IF j > Len(h[id].props)
    THEN acc
    ELSE LET val == h[id].props[j].v
         IN  VisitProps(h, id, j + 1,
                        IF IsRef(val) THEN Visit(h, val.v, acc) ELSE acc)

\* The identities of the containers reachable from a value.
Reach(h, val) ==
    IF IsRef(val)
    THEN LET order == Visit(h, val.v, <<>>)
         IN  {order[j] : j \in 1..Len(order)}
    ELSE {}

RECURSIVE Sum(_, _)
Sum(w, n) == IF n = 0 THEN 0 ELSE w[n] + Sum(w, n - 1)

KeyNames == <<"a", "b", "c", "d", "e", "f", "g", "h">>

\* The heap of n containers with widths w, kinds kd and slot values flat
\* (the slots of container 1 first, then those of container 2, ...).
BuildHeap(n, w, kd, flat) ==
    [id \in 1..n |->
        [kind |-> kd[id],
         props |-> [j \in 1..w[id] |->
                      [k |-> IF kd[id] \in {"array", "buffer"}
                             THEN ToString(j - 1) ELSE KeyNames[j],
                       v |-> flat[Sum(w, id - 1) + j]]]]]

---------------------------------------------------------------------------
(* The parts of the repository at rest *)

\* No deepClone call has been made and there is nothing to clone.
CloneAtRest ==
    /\ heap = <<>>
    /\ root = Undefined
    /\ phase = "ready"
    /\ stack = <<>>
    /\ seen = EmptyMap
    /\ arg = Undefined
    /\ calls = <<>>
    /\ allocs = <<>>

\* No counter has been created.
CountersAtRest ==
    /\ counters = <<>>
    /\ cells = EmptyMap
    /\ priv = EmptyMap

\* No handler has been created and nothing has been logged.
ChainAtRest ==
    /\ handlers = <<>>
    /\ request = Undefined
    /\ thisHandler = 0
    /\ consulted = <<>>
    /\ console = <<>>
    /\ hphase = "build"

\* An evaluation that has not started.
Idle == [pc |-> "idle", obj |-> Undefined, result |-> Undefined,
         out |-> Undefined, ran |-> 0]

\* No constructor has been chosen.
NewAtRest ==
    /\ fn = Undefined
    /\ fnArgs = <<>>
    /\ sim = Idle
    /\ native = Idle

\* An object with no own property, linked to Object.prototype.
EmptyObject == [proto |-> "Object.prototype", props |-> <<>>]

\* No merge has been called and Object.prototype is as the engine made it.
MergeAtRest ==
    /\ mcall = [version |-> "none", target0 |-> EmptyObject, source |-> EmptyObject]
    /\ mtarget = EmptyObject
    /\ objectProto = <<>>
    /\ mkeys = <<>>
    /\ massigned = <<>>
    /\ mpc = "idle"

\* A deepFreeze call that has not been made.
NoFreezeCall == [frozen0 |-> {}, heap0 |-> <<>>, ret |-> Undefined]

\* There is no object to freeze and deepFreeze has not been called.
FreezeAtRest ==
    /\ objs = <<>>
    /\ frozen = {}
    /\ fstack = <<>>
    /\ fphase = "ready"
    /\ fcall = NoFreezeCall

NotCloneAtRest ==
    CountersAtRest /\ ChainAtRest /\ NewAtRest /\ MergeAtRest /\ FreezeAtRest
NotCounterAtRest ==
    CloneAtRest /\ ChainAtRest /\ NewAtRest /\ MergeAtRest /\ FreezeAtRest
NotChainAtRest ==
    CloneAtRest /\ CountersAtRest /\ NewAtRest /\ MergeAtRest /\ FreezeAtRest
NotNewAtRest ==
    CloneAtRest /\ CountersAtRest /\ ChainAtRest /\ MergeAtRest /\ FreezeAtRest
NotMergeAtRest ==
    CloneAtRest /\ CountersAtRest /\ ChainAtRest /\ NewAtRest /\ FreezeAtRest
NotFreezeAtRest ==
    CloneAtRest /\ CountersAtRest /\ ChainAtRest /\ NewAtRest /\ MergeAtRest

---------------------------------------------------------------------------
(* The script *)

\* V is a primitive, or the container 1 of a graph of at most MaxNodes
\* containers and MaxSlots slots, every container reachable from V and
\* numbered in the order a traversal from V meets it.
Init ==
    /\ \/ /\ root \in Prims
          /\ heap = <<>>
       \/ /\ root = Ref(1)
          /\ \E n \in 1..MaxNodes :
             \E w \in [1..n -> 0..MaxSlots] :
                /\ Sum(w, n) <= MaxSlots
                /\ \E flat \in [1..Sum(w, n) -> LeafPrims \cup {Ref(id) : id \in 1..n}] :
                   \E kd \in [1..n -> {"array", "object"}] :
                      /\ heap = BuildHeap(n, w, kd, flat)
                      /\ Visit(heap, 1, <<>>) = [id \in 1..n |-> id]
    /\ phase = "ready"
    /\ stack = <<>>
    /\ seen = EmptyMap
    /\ arg = Undefined
    /\ calls = <<>>
    /\ allocs = <<>>
    /\ NotCloneAtRest

\* const clonedNested = deepClone(nested): a top-level call, with the
\* default parameter seen = new WeakMap().
Call(val) ==
    /\ phase \in {"ready", "done"}
    /\ Len(calls) < MaxCalls
    /\ phase' = "running"
    /\ arg' = val
    /\ stack' = <<EntryFrame(val)>>
    /\ seen' = DefaultSeen(seen)
    /\ allocs' = <<>>
    /\ UNCHANGED <<heap, root, calls>>
    /\ UNCHANGED notClone

\* The innermost invocation returns ret: the caller stores it and moves to
\* its next iteration, or the top-level call ends.
Return(ret) ==
    IF Len(stack) = 1
    THEN /\ stack' = <<>>
         /\ calls' = Append(calls, [arg |-> arg, ret |-> ret])
         /\ phase' = "done"
         /\ UNCHANGED heap
    ELSE LET f == stack[Len(stack) - 1]
         IN  /\ heap' = Store(heap, f, ret)
             /\ stack' = [SubSeq(stack, 1, Len(stack) - 1)
                            EXCEPT ![Len(stack) - 1].i = f.i + 1]
             /\ UNCHANGED <<calls, phase>>

Top == stack[Len(stack)]

\* Line 708: a primitive is returned as it is.
ReturnPrimitive ==
    /\ phase = "running"
    /\ Top.pc = "entry"
    /\ IsPrimitive(Top.value)
    /\ Return(Top.value)
    /\ UNCHANGED <<root, seen, arg, allocs>>
    /\ UNCHANGED notClone

\* Line 709: a source container met before yields the clone made for it.
ReturnSeen ==
    /\ phase = "running"
    /\ Top.pc = "entry"
    /\ ~IsPrimitive(Top.value)
    /\ SeenHas(seen, Top.value)
    /\ Return(SeenGet(seen, Top.value))
    /\ UNCHANGED <<root, seen, arg, allocs>>
    /\ UNCHANGED notClone

\* Lines 710-712 and 716-718: a new empty container is allocated and
\* registered in seen.  WeakMap.prototype.set throws a TypeError for a key
\* that is not an object.
Allocate ==
    /\ phase = "running"
    /\ Top.pc = "entry"
    /\ ~IsPrimitive(Top.value)
    /\ ~SeenHas(seen, Top.value)
    /\ IF ~IsRef(Top.value)
       THEN /\ phase' = "threw"
            /\ UNCHANGED <<heap, stack, seen, allocs>>
       ELSE LET id == Len(heap) + 1
            IN  /\ heap' = Append(heap, NewContainer(heap, Top.value))
                /\ seen' = SeenSet(seen, Top.value, id)
                /\ allocs' = Append(allocs, <<Top.value.v, id>>)
                /\ stack' = [stack EXCEPT ![Len(stack)] =
                               [value |-> Top.value, pc |-> "loop", out |-> Ref(id),
                                keys |-> IF IsArray(heap, Top.value) THEN <<>>
                                         ELSE ObjectKeys(heap, Top.value),
                                i |-> 1]]
                /\ UNCHANGED phase
    /\ UNCHANGED <<root, arg, calls>>
    /\ UNCHANGED notClone

\* Lines 713 and 719: the recursive call on the next element or field.  A
\* call beyond the engine's stack size raises a RangeError.
Recurse ==
    /\ phase = "running"
    /\ Top.pc = "loop"
    /\ HasNext(heap, Top)
    /\ IF Len(stack) >= MaxDepth
       THEN /\ phase' = "threw"
            /\ UNCHANGED stack
       ELSE /\ stack' = Append(stack, EntryFrame(NextChild(heap, Top)))
            /\ UNCHANGED phase
    /\ UNCHANGED <<heap, root, seen, arg, calls, allocs>>
    /\ UNCHANGED notClone

\* Lines 714 and 721: the loop is over, the new container is returned.
ReturnOut ==
    /\ phase = "running"
    /\ Top.pc = "loop"
    /\ ~HasNext(heap, Top)
    /\ Return(Top.out)
    /\ UNCHANGED <<root, seen, arg, allocs>>
    /\ UNCHANGED notClone

CloneStep == ReturnPrimitive \/ ReturnSeen \/ Allocate \/ Recurse \/ ReturnOut

\* The value the script writes on line 726.
Marker == Num(99)

\* clonedNested.a.b.c = 99: after its first clone the script overwrites slot
\* j of a container, or adds a slot to it (j one past the last).
Mutate(id, j) ==
    /\ phase = "done"
    /\ Len(calls) = 1
    /\ id \in DOMAIN heap
    /\ j \in 1..(Len(heap[id].props) + 1)
    /\ heap' = [heap EXCEPT ![id] =
                  IF j <= Len(@.props)
                  THEN Assign(@, @.props[j].k, Marker)
                  ELSE IF @.kind = "array" THEN Push(@, Marker)
                       ELSE Assign(@, "z", Marker)]
    /\ phase' = "mutated"
    /\ UNCHANGED <<root, stack, seen, arg, calls, allocs>>
    /\ UNCHANGED notClone

\* The values the script can name: V and what deepClone returned last.
Nameable == {root} \cup {calls[c].ret : c \in {Len(calls)} \ {0}}

Next ==
    \/ \E val \in Nameable : Call(val)
    \/ CloneStep
    \/ \E id \in DOMAIN heap : \E j \in 1..(MaxSlots + 2) : Mutate(id, j)

Spec == Init /\ [][Next]_vars

\* deepClone is synchronous: once called it runs to its return.
FairSpec == Spec /\ WF_vars(CloneStep)

\* The kinds of object that are neither arrays nor plain objects: a Date has
\* no own enumerable key, a Uint8Array has its indices as keys and numbers
\* as elements.  typeof answers "object" for both and Array.isArray false.
ExoticKinds == {"date", "buffer"}

\* V is a function, or a graph as in Init in which some container is a Date
\* or a Uint8Array or some slot holds a function.
ExoticInit ==
    /\ \/ /\ root = Fn
          /\ heap = <<>>
       \/ /\ root = Ref(1)
          /\ \E n \in 1..MaxNodes :
             \E w \in [1..n -> 0..MaxSlots] :
                /\ Sum(w, n) <= MaxSlots
                /\ \E flat \in [1..Sum(w, n) -> {Num(3), Fn} \cup {Ref(id) : id \in 1..n}] :
                   \E kd \in [1..n -> {"array", "object"} \cup ExoticKinds] :
                      /\ heap = BuildHeap(n, w, kd, flat)
                      /\ Visit(heap, 1, <<>>) = [id \in 1..n |-> id]
                      /\ \A id \in 1..n :
                            /\ kd[id] = "date" => w[id] = 0
                            /\ kd[id] = "buffer" =>
                                  \A j \in 1..w[id] : heap[id].props[j].v = Num(3)
                      /\ \/ \E id \in 1..n : kd[id] \in ExoticKinds
                         \/ \E j \in 1..Sum(w, n) : flat[j] = Fn
    /\ phase = "ready"
    /\ stack = <<>>
    /\ seen = EmptyMap
    /\ arg = Undefined
    /\ calls = <<>>
    /\ allocs = <<>>
    /\ NotCloneAtRest

ExoticSpec == ExoticInit /\ [][Next]_vars

---------------------------------------------------------------------------
(* The counters of src/unnamed/part_000 *)

\* Counter objects the script creates.
MaxCounters == 2
\* Method calls the script makes, on all its counters together.
MaxOps == 5

\* The arguments the script passes to the factories: none, or a number.
InitialArgs == {Undefined, Num(5)}

\* The default parameter initialValue = 0.
InitialValue(a) == IF a = Undefined THEN 0 ELSE a.v

\* The variable `count` a createCounter closure captured: a new one for
\* each call of createCounter.
CellOf(id) == id

\* The private data kept under the shared prototype:
\* _counterPrivate.get(counterProto)
PrivateKeyShared(this) == 1

\* The key of an object's private data: _counterPrivate.get(this)
PrivateKey(this) == this

\* count += 1 in the closure's decrement.
ClosureMinusUp(n) == n + 1

\* count += 1 (line 328)
ClosurePlus(n) == n + 1

\* count -= 1 (line 332)
ClosureMinus(n) == n - 1

\* data.count += 1 in the prototype's decrement.
DataMinusUp(n) == n + 1

\* data.count += 1 (line 380)
DataPlus(n) == n + 1

\* data.count -= 1 (line 385)
DataMinus(n) == n - 1

\* What getCount() returns on counter id: count, or
\* _counterPrivate.get(this).count.
ReadCount(id) ==
    IF counters[id].kind = "closure"
    THEN cells[CellOf(id)]
    ELSE priv[PrivateKey(id)].count

\* The counter after a call of method op returned ret.
Logged(c, op, ret) == [c EXCEPT !.log = Append(@, [op |-> op, ret |-> ret])]

OpsMade == LET RECURSIVE Total(_)
               Total(n) == IF n = 0 THEN 0 ELSE Len(counters[n].log) + Total(n - 1)
           IN  Total(Len(counters))

\* const counter1 = createCounter(5)
CreateCounter(a) ==
    /\ Len(counters) < MaxCounters
    /\ LET id == Len(counters) + 1
       IN  /\ counters' = Append(counters,
                 [kind |-> "closure", init |-> InitialValue(a), log |-> <<>>])
           /\ cells' = (CellOf(id) :> InitialValue(a)) @@ cells
    /\ UNCHANGED priv
    /\ UNCHANGED notCounter

\* const counter2 = createCounterAdvanced(10)
CreateCounterAdvanced(a) ==
    /\ Len(counters) < MaxCounters
    /\ LET id == Len(counters) + 1
       IN  /\ counters' = Append(counters,
                 [kind |-> "advanced", init |-> InitialValue(a), log |-> <<>>])
           /\ priv' = (PrivateKey(id) :> [count |-> InitialValue(a)]) @@ priv
    /\ UNCHANGED cells
    /\ UNCHANGED notCounter

\* counter.increment(): lines 327-330 for a closure counter, lines 378-382
\* through the prototype for a WeakMap counter.
Increment(id) ==
    /\ id \in 1..Len(counters)
    /\ OpsMade < MaxOps
    /\ IF counters[id].kind = "closure"
       THEN /\ cells' = [cells EXCEPT ![CellOf(id)] = ClosurePlus(@)]
            /\ counters' = [counters EXCEPT ![id] =
                              Logged(@, "increment", cells'[CellOf(id)])]
            /\ UNCHANGED priv
       ELSE /\ priv' = [priv EXCEPT ![PrivateKey(id)].count = DataPlus(@)]
            /\ counters' = [counters EXCEPT ![id] =
                              Logged(@, "increment", priv'[PrivateKey(id)].count)]
            /\ UNCHANGED cells
    /\ UNCHANGED notCounter

\* counter.decrement(): lines 331-334, or lines 383-387.
Decrement(id) ==
    /\ id \in 1..Len(counters)
    /\ OpsMade < MaxOps
    /\ IF counters[id].kind = "closure"
       THEN /\ cells' = [cells EXCEPT ![CellOf(id)] = ClosureMinus(@)]
            /\ counters' = [counters EXCEPT ![id] =
                              Logged(@, "decrement", cells'[CellOf(id)])]
            /\ UNCHANGED priv
       ELSE /\ priv' = [priv EXCEPT ![PrivateKey(id)].count = DataMinus(@)]
            /\ counters' = [counters EXCEPT ![id] =
                              Logged(@, "decrement", priv'[PrivateKey(id)].count)]
            /\ UNCHANGED cells
    /\ UNCHANGED notCounter

\* counter.getCount()
GetCount(id) ==
    /\ id \in 1..Len(counters)
    /\ OpsMade < MaxOps
    /\ counters' = [counters EXCEPT ![id] = Logged(@, "getCount", ReadCount(id))]
    /\ UNCHANGED <<cells, priv>>
    /\ UNCHANGED notCounter

CounterInit == CountersAtRest /\ NotCounterAtRest

CounterNext ==
    \/ \E a \in InitialArgs : CreateCounter(a)
    \/ \E a \in InitialArgs : CreateCounterAdvanced(a)
    \/ \E id \in 1..MaxCounters : Increment(id)
    \/ \E id \in 1..MaxCounters : Decrement(id)
    \/ \E id \in 1..MaxCounters : GetCount(id)

CounterSpec == CounterInit /\ [][CounterNext]_vars

---------------------------------------------------------------------------
(* The chain of responsibility of src/unnamed/part_001 *)

MaxHandlers == 3

\* The classes: Handler itself and its three subclasses.
Classes == {"Handler", "EmailHandler", "PhoneHandler", "ChatHandler"}

\* A request object { type: ty }.
Request(ty) == [t |-> "request", v |-> ty]

\* The arguments handle is called with: the three requests of the example,
\* a request of a type no handler knows, a request that is not an object,
\* and no request at all.
Requests ==
    {Request("email"), Request("phone"), Request("chat"), Request("fax"),
     Str("email"), Null, Undefined}

\* The type each subclass compares with (lines 990, 1002, 1014).
TypeHandled(cls) ==
    CASE cls = "EmailHandler" -> Str("email")
      [] cls = "PhoneHandler" -> Str("phone")
      [] cls = "ChatHandler"  -> Str("chat")

\* Evaluating request.type: a TypeError on null and undefined, undefined
\* on any other value that has no such property.
TypeThrows(req) == req \in {Null, Undefined}

RequestType(req) == IF req.t = "request" THEN Str(req.v) ELSE Undefined

\* canHandle(request) of class cls throws.
CanHandleThrows(cls, req) == cls # "Handler" /\ TypeThrows(req)

\* canHandle(request) of class cls, when it does not throw.
CanHandle(cls, req) ==
    IF cls = "Handler" THEN FALSE ELSE RequestType(req) = TypeHandled(cls)

\* this.next is truthy: neither null nor undefined.
HasNextHandler(h) == handlers[h].next # 0

\* new Handler(): no constructor of its own, so this.next stays undefined.
\* new EmailHandler(next), new PhoneHandler(next), new ChatHandler(next):
\* next is null or a handler that already exists.
NewHandler(cls, next) ==
    /\ hphase = "build"
    /\ Len(handlers) < MaxHandlers
    /\ next \in 0..Len(handlers)
    /\ cls = "Handler" => next = 0
    /\ handlers' = Append(handlers, [cls |-> cls, next |-> next])
    /\ UNCHANGED <<request, thisHandler, consulted, console, hphase>>
    /\ UNCHANGED notChain

\* first.handle(req), called by the script.
HandleCall(first, req) ==
    /\ hphase = "build"
    /\ first \in 1..Len(handlers)
    /\ request' = req
    /\ thisHandler' = first
    /\ hphase' = "running"
    /\ UNCHANGED <<handlers, consulted, console>>
    /\ UNCHANGED notChain

\* One invocation of handle (lines 967-975).
Handle ==
    /\ hphase = "running"
    /\ consulted' = Append(consulted, thisHandler)
    /\ IF CanHandleThrows(handlers[thisHandler].cls, request)
       THEN /\ hphase' = "threw"
            /\ thisHandler' = 0
            /\ UNCHANGED console
       ELSE IF CanHandle(handlers[thisHandler].cls, request)
       THEN /\ console' = Append(console, [text |-> "handled", by |-> thisHandler])
            /\ hphase' = "done"
            /\ thisHandler' = 0
       ELSE IF HasNextHandler(thisHandler)
       THEN /\ thisHandler' = handlers[thisHandler].next
            /\ UNCHANGED <<console, hphase>>
       ELSE /\ console' = Append(console, [text |-> "Request could not be handled",
                                            by |-> 0])
            /\ hphase' = "done"
            /\ thisHandler' = 0
    /\ UNCHANGED <<handlers, request>>
    /\ UNCHANGED notChain

ChainInit == ChainAtRest /\ NotChainAtRest

ChainNext ==
    \/ \E cls \in Classes, next \in 0..MaxHandlers : NewHandler(cls, next)
    \/ \E first \in 1..MaxHandlers, req \in Requests : HandleCall(first, req)
    \/ Handle

ChainSpec == ChainInit /\ [][ChainNext]_vars

---------------------------------------------------------------------------
(* simulateNew of src/unnamed/part_000, and the operator new it simulates *)

MaxArgs == 2

\* The objects a prototype link can point to.
ProtoObj(name) == [t |-> "object", v |-> name]
OwnPrototype == ProtoObj("C.prototype")
ObjectPrototype == ProtoObj("Object.prototype")

\* The object and the function a constructor may return, as Weird does.
ReturnedObject == [t |-> "object", v |-> "{ b: 2 }"]
ReturnedFunction == Fn

\* What the prototype property of an ordinary function can hold: the object
\* it was created with, or whatever the script has assigned to it.
PrototypeValues == {OwnPrototype, Null, Undefined, Num(5)}

\* What the body of a constructor can return.
ReturnValues ==
    {Undefined, Null, Num(1), Str("s"), Bool(TRUE), ReturnedObject, ReturnedFunction}

\* The ordinary constructor functions: the body stores its arguments on
\* this and returns ret.
Constructors == [t : {"constructor"}, prototype : PrototypeValues, ret : ReturnValues]

\* The argument lists of the script: 'Sim', 1 and their prefixes.
ArgAt(i) == IF i = 1 THEN Str("Sim") ELSE Num(i - 1)

ArgLists == {[i \in 1..n |-> ArgAt(i)] : n \in 0..MaxArgs}

\* typeof x === 'object' || typeof x === 'function', and x !== null.
IsObjectValue(x) == x # Null /\ x.t \in {"object", "function"}

\* Object.create(proto) throws a TypeError unless proto is an object or null.
ObjectCreateThrows(proto) == ~(proto = Null \/ IsObjectValue(proto))

\* Object.create(proto): a fresh object with that prototype link.
ObjectCreate(proto) == [t |-> "fresh", proto |-> proto, fields |-> <<>>]

\* The object the operator new creates: its prototype link is the
\* function's prototype property when that is an object, and Object.prototype
\* otherwise (ECMAScript OrdinaryCreateFromConstructor).
NewObject(c) ==
    [t |-> "fresh",
     proto |-> IF IsObjectValue(c.prototype) THEN c.prototype ELSE ObjectPrototype,
     fields |-> <<>>]

\* The body of the constructor, run with this = obj: this after the run.
BodyThis(c, obj, as) == [obj EXCEPT !.fields = as]

\* The body of the constructor: the value it returns.
BodyReturn(c, obj, as) == c.ret

\* Line 76, and step 4 of new: the returned object wins.
Outcome(result, obj) == IF IsObjectValue(result) THEN result ELSE obj

\* The script chooses a constructor and its arguments.
Construct(c, as) ==
    /\ fn = Undefined
    /\ Len(as) <= MaxArgs
    /\ fn' = c
    /\ fnArgs' = as
    /\ sim' = [Idle EXCEPT !.pc = "create"]
    /\ native' = [Idle EXCEPT !.pc = "create"]
    /\ UNCHANGED notNew

\* Line 74: const obj = Object.create(constructor.prototype)
SimCreate ==
    /\ sim.pc = "create"
    /\ IF ObjectCreateThrows(fn.prototype)
       THEN sim' = [sim EXCEPT !.pc = "threw", !.out = [t |-> "TypeError"]]
       ELSE sim' = [sim EXCEPT !.pc = "apply", !.obj = ObjectCreate(fn.prototype)]
    /\ UNCHANGED <<fn, fnArgs, native>>
    /\ UNCHANGED notNew

\* Line 75: const result = constructor.apply(obj, args)
SimApply ==
    /\ sim.pc = "apply"
    /\ sim' = [sim EXCEPT !.pc = "return",
                          !.obj = BodyThis(fn, sim.obj, fnArgs),
                          !.result = BodyReturn(fn, sim.obj, fnArgs),
                          !.ran = @ + 1]
    /\ UNCHANGED <<fn, fnArgs, native>>
    /\ UNCHANGED notNew

\* Line 76: return result if it is an object or a function, else obj
SimReturn ==
    /\ sim.pc = "return"
    /\ sim' = [sim EXCEPT !.pc = "done", !.out = Outcome(sim.result, sim.obj)]
    /\ UNCHANGED <<fn, fnArgs, native>>
    /\ UNCHANGED notNew

\* new, steps 1 and 2: create the object and set its prototype link.
NewCreate ==
    /\ native.pc = "create"
    /\ native' = [native EXCEPT !.pc = "apply", !.obj = NewObject(fn)]
    /\ UNCHANGED <<fn, fnArgs, sim>>
    /\ UNCHANGED notNew

\* new, step 3: call the constructor with this bound to the object.
NewCall ==
    /\ native.pc = "apply"
    /\ native' = [native EXCEPT !.pc = "return",
                                !.obj = BodyThis(fn, native.obj, fnArgs),
                                !.result = BodyReturn(fn, native.obj, fnArgs),
                                !.ran = @ + 1]
    /\ UNCHANGED <<fn, fnArgs, sim>>
    /\ UNCHANGED notNew

\* new, step 4: the returned object wins, otherwise the created object.
NewReturn ==
    /\ native.pc = "return"
    /\ native' = [native EXCEPT !.pc = "done",
                                !.out = Outcome(native.result, native.obj)]
    /\ UNCHANGED <<fn, fnArgs, sim>>
    /\ UNCHANGED notNew

NewInit == NewAtRest /\ NotNewAtRest

NewNext ==
    \/ \E c \in Constructors, as \in ArgLists : Construct(c, as)
    \/ SimCreate
    \/ SimApply
    \/ SimReturn
    \/ NewCreate
    \/ NewCall
    \/ NewReturn

NewSpec == NewInit /\ [][NewNext]_vars

---------------------------------------------------------------------------
(* safeMerge of src/inheritance.js and of src/unnamed/part_001 *)

MaxKeys == 2

\* The two definitions of safeMerge.
Versions == {"inheritance.js", "part_001"}

\* The object of the attack: { isAdmin: true }.
Payload == [t |-> "object", v |-> "{ isAdmin: true }"]

\* Its one property.
PayloadProps == <<[k |-> "isAdmin", v |-> Bool(TRUE)]>>

\* The keys a parsed source can have as its own, and their values.
SourceKeys == {"a", "b", "__proto__", "constructor", "hasOwnProperty"}
SourceValues == {Num(1), Payload}

\* What the prototype link of a source points to: Object.prototype, an
\* object with an enumerable property of its own, or nothing (null).
SourceProtos == {"Object.prototype", "parent", "null"}
ParentProps == <<[k |-> "inherited", v |-> Num(9)], [k |-> "a", v |-> Num(9)]>>

\* The sequences of at most n properties with distinct keys.
RECURSIVE PropLists(_)
PropLists(n) ==
    IF n = 0 THEN {<<>>}
    ELSE PropLists(n - 1) \cup
         {Append(ps, [k |-> k, v |-> v]) :
            ps \in {q \in PropLists(n - 1) : Len(q) = n - 1},
            k \in SourceKeys, v \in SourceValues}

DistinctKeys(ps) == \A i, j \in 1..Len(ps) : ps[i].k = ps[j].k => i = j

Sources ==
    {[proto |-> pr, props |-> ps] :
        pr \in SourceProtos, ps \in {q \in PropLists(MaxKeys) : DistinctKeys(q)}}

\* The targets: const user = {}, and objects that have properties already.
Targets ==
    {EmptyObject,
     [proto |-> "Object.prototype", props |-> <<[k |-> "a", v |-> Num(0)]>>],
     [proto |-> "Object.prototype",
      props |-> <<[k |-> "b", v |-> Num(0)], [k |-> "c", v |-> Num(0)]>>]}

\* obj has an own property named key.
HasOwn(obj, key) == \E j \in 1..Len(obj.props) : obj.props[j].k = key

\* The keys of a property list that are not in the list of keys ks.
RECURSIVE KeysNotIn(_, _)
KeysNotIn(ps, ks) ==
    IF ps = <<>> THEN <<>>
    ELSE IF \E j \in 1..Len(ks) : ks[j] = Head(ps).k
         THEN KeysNotIn(Tail(ps), ks)
         ELSE <<Head(ps).k>> \o KeysNotIn(Tail(ps), ks)

\* The enumerable properties obj inherits, nearest first.
Inherited(obj, op) ==
    CASE obj.proto = "null"    -> <<>>
      [] obj.proto = "parent"  -> ParentProps \o op
      [] obj.proto = Payload.v -> PayloadProps \o op
      [] OTHER                 -> op

\* for (key in source): the own enumerable string keys in the order of
\* their creation, then the inherited enumerable keys that are not shadowed.
ForInKeys(obj, op) ==
    LET own == [j \in 1..Len(obj.props) |-> obj.props[j].k]
    IN  own \o KeysNotIn(Inherited(obj, op), own)

\* source[key], through the prototype chain.
Get(obj, key, op) ==
    IF HasOwn(obj, key) THEN GetProp(obj, key)
    ELSE GetProp([props |-> Inherited(obj, op)], key)

\* source.hasOwnProperty(key) throws a TypeError: the name resolves to an
\* own property of the source that is not a function, or to nothing at all
\* when the source has no Object.prototype behind it.
HasOwnPropertyThrows(obj) ==
    \/ HasOwn(obj, "hasOwnProperty")
    \/ obj.proto = "null"

\* The test of line 1429, and of lines 154-155: the key is copied.
Passes(obj, key) ==
    HasOwn(obj, key) /\ key # "__proto__" /\ key # "constructor"

\* The test throws: line 1429 calls the method through the source,
\* line 154 calls Object.prototype.hasOwnProperty itself.
TestThrows(version, obj) ==
    version = "inheritance.js" /\ HasOwnPropertyThrows(obj)

\* target[key] = x. The name __proto__ reaches the setter inherited from
\* Object.prototype, which relinks the target to an object or to null and
\* ignores every other value.
Put(obj, key, x) ==
    IF key = "__proto__" /\ obj.proto # "null" /\ ~HasOwn(obj, key)
    THEN IF x = Null THEN [obj EXCEPT !.proto = "null"]
         ELSE IF x.t = "object" THEN [obj EXCEPT !.proto = x.v]
         ELSE obj
    ELSE Assign(obj, key, x)

\* safeMerge(target, source), called by the script.
SafeMergeCall(version, target, source) ==
    /\ mpc = "idle"
    /\ mcall' = [version |-> version, target0 |-> target, source |-> source]
    /\ mtarget' = target
    /\ mkeys' = ForInKeys(source, objectProto)
    /\ massigned' = <<>>
    /\ mpc' = "loop"
    /\ UNCHANGED objectProto
    /\ UNCHANGED notMerge

\* One turn of the loop (lines 1428-1432; lines 153-157).
SafeMergeStep ==
    /\ mpc = "loop"
    /\ mkeys # <<>>
    /\ IF TestThrows(mcall.version, mcall.source)
       THEN /\ mpc' = "threw"
            /\ UNCHANGED <<mtarget, mkeys, massigned>>
       ELSE IF Passes(mcall.source, Head(mkeys))
       THEN /\ mtarget' = Put(mtarget, Head(mkeys),
                              Get(mcall.source, Head(mkeys), objectProto))
            /\ massigned' = Append(massigned, Head(mkeys))
            /\ mkeys' = Tail(mkeys)
            /\ UNCHANGED mpc
       ELSE /\ mkeys' = Tail(mkeys)
            /\ UNCHANGED <<mtarget, massigned, mpc>>
    /\ UNCHANGED <<mcall, objectProto>>
    /\ UNCHANGED notMerge

\* The loop has no key left: return target (line 1433), or the end of the
\* function (line 158).
SafeMergeReturn ==
    /\ mpc = "loop"
    /\ mkeys = <<>>
    /\ mpc' = "done"
    /\ UNCHANGED <<mcall, mtarget, objectProto, mkeys, massigned>>
    /\ UNCHANGED notMerge

\* unsafeMerge(target, source), called by the script (src/inheritance.js
\* lines 1412-1417, src/unnamed/part_001 lines 147-149).
UnsafeMergeCall(version, target, source) ==
    /\ mpc = "idle"
    /\ mcall' = [version |-> version, target0 |-> target, source |-> source]
    /\ mtarget' = target
    /\ mkeys' = ForInKeys(source, objectProto)
    /\ massigned' = <<>>
    /\ mpc' = "loop"
    /\ UNCHANGED objectProto
    /\ UNCHANGED notMerge

\* One turn of the loop (line 1414; line 148): target[key] = source[key]
UnsafeMergeStep ==
    /\ mpc = "loop"
    /\ mkeys # <<>>
    /\ mtarget' = Put(mtarget, Head(mkeys),
                      Get(mcall.source, Head(mkeys), objectProto))
    /\ massigned' = Append(massigned, Head(mkeys))
    /\ mkeys' = Tail(mkeys)
    /\ UNCHANGED <<mcall, objectProto, mpc>>
    /\ UNCHANGED notMerge

\* The loop has no key left: return target (line 1416), or the end of the
\* function (line 149).
UnsafeMergeReturn ==
    /\ mpc = "loop"
    /\ mkeys = <<>>
    /\ mpc' = "done"
    /\ UNCHANGED <<mcall, mtarget, objectProto, mkeys, massigned>>
    /\ UNCHANGED notMerge

MergeInit == MergeAtRest /\ NotMergeAtRest

MergeNext ==
    \/ \E version \in Versions, target \in Targets, source \in Sources :
          SafeMergeCall(version, target, source)
    \/ SafeMergeStep
    \/ SafeMergeReturn

MergeSpec == MergeInit /\ [][MergeNext]_vars

UnsafeNext ==
    \/ \E version \in Versions, target \in Targets, source \in Sources :
          UnsafeMergeCall(version, target, source)
    \/ UnsafeMergeStep
    \/ UnsafeMergeReturn

UnsafeSpec == MergeInit /\ [][UnsafeNext]_vars

---------------------------------------------------------------------------
(* deepFreeze of src/inheritance.js *)

\* if (prop ...): the values that count as true.
Truthy(val) == val \notin {Null, Undefined, Num(0), Str(""), Bool(FALSE)}

\* Object.getOwnPropertyNames(obj): the own string keys, and length for
\* an array.
OwnPropertyNames(h, id) ==
    ObjectKeys(h, Ref(id)) \o (IF h[id].kind = "array" THEN <<"length">> ELSE <<>>)

\* obj[name]
OwnGet(h, id, name) ==
    IF name = "length" /\ h[id].kind = "array"
    THEN Num(Len(h[id].props))
    ELSE GetProp(h[id], name)

\* Object.isFrozen(prop)
IsFrozen(fr, val) == val.v \in fr

\* Line 752: prop && typeof prop === 'object' && !Object.isFrozen(prop)
ShouldFreeze(fr, prop) ==
    Truthy(prop) /\ TypeOf(prop) = "object" /\ ~IsFrozen(fr, prop)

\* Object.freeze(obj)
ObjectFreeze(fr, id) == fr \cup {id}

\* An invocation that has just been entered: forEach is at the first name.
FreezeFrame(h, id) == [obj |-> id, names |-> OwnPropertyNames(h, id), i |-> 1]

FTop == fstack[Len(fstack)]

\* deepFreeze(deepObj), called by the script.
FreezeCall ==
    /\ fphase = "ready"
    /\ fcall' = [frozen0 |-> frozen, heap0 |-> objs, ret |-> Undefined]
    /\ fstack' = <<FreezeFrame(objs, 1)>>
    /\ fphase' = "running"
    /\ UNCHANGED <<objs, frozen>>
    /\ UNCHANGED notFreeze

\* Lines 751-754: the callback of forEach for the next name. The recursive
\* call enters a new invocation; the engine's call stack is finite, and an
\* invocation beyond it raises a RangeError.
FreezeEach ==
    /\ fphase = "running"
    /\ FTop.i <= Len(FTop.names)
    /\ LET prop == OwnGet(objs, FTop.obj, FTop.names[FTop.i])
       IN  IF ShouldFreeze(frozen, prop)
           THEN IF Len(fstack) >= MaxDepth
                THEN /\ fphase' = "threw"
                     /\ UNCHANGED fstack
                ELSE /\ fstack' = Append([fstack EXCEPT ![Len(fstack)].i = @ + 1],
                                         FreezeFrame(objs, prop.v))
                     /\ UNCHANGED fphase
           ELSE /\ fstack' = [fstack EXCEPT ![Len(fstack)].i = @ + 1]
                /\ UNCHANGED fphase
    /\ UNCHANGED <<objs, frozen, fcall>>
    /\ UNCHANGED notFreeze

\* Line 756: return Object.freeze(obj)
FreezeReturn ==
    /\ fphase = "running"
    /\ FTop.i > Len(FTop.names)
    /\ frozen' = ObjectFreeze(frozen, FTop.obj)
    /\ fstack' = SubSeq(fstack, 1, Len(fstack) - 1)
    /\ IF Len(fstack) = 1
       THEN /\ fphase' = "done"
            /\ fcall' = [fcall EXCEPT !.ret = Ref(FTop.obj)]
       ELSE UNCHANGED <<fphase, fcall>>
    /\ UNCHANGED objs
    /\ UNCHANGED notFreeze

FreezeStep == FreezeEach \/ FreezeReturn

\* deepObj.a.b = 5, after the call: a write to slot j of object id, or to
\* a new property (j one past the last). A frozen object ignores it.
FreezeWrite(id, j) ==
    /\ fphase = "done"
    /\ id \in DOMAIN objs
    /\ j \in 1..(Len(objs[id].props) + 1)
    /\ objs' = IF IsFrozen(frozen, Ref(id))
               THEN objs
               ELSE [objs EXCEPT ![id] =
                       IF j <= Len(@.props)
                       THEN Assign(@, @.props[j].k, Marker)
                       ELSE Assign(@, "z", Marker)]
    /\ fphase' = "written"
    /\ UNCHANGED <<frozen, fstack, fcall>>
    /\ UNCHANGED notFreeze

\* The script's objects before deepFreeze is called: every graph within the
\* bounds, any of its objects already frozen by Object.freeze (lines 735, 744).
FreezeInit ==
    /\ \E n \in 1..MaxNodes :
       \E w \in [1..n -> 0..MaxSlots] :
          /\ Sum(w, n) <= MaxSlots
          /\ \E flat \in [1..Sum(w, n) -> LeafPrims \cup {Ref(id) : id \in 1..n}] :
             \E kd \in [1..n -> {"array", "object"}] :
                /\ objs = BuildHeap(n, w, kd, flat)
                /\ Visit(objs, 1, <<>>) = [id \in 1..n |-> id]
    /\ frozen \in SUBSET DOMAIN objs
    /\ fstack = <<>>
    /\ fphase = "ready"
    /\ fcall = NoFreezeCall
    /\ NotFreezeAtRest

FreezeNext ==
    \/ FreezeCall
    \/ FreezeEach
    \/ FreezeReturn
    \/ \E id \in 1..(MaxNodes + 1), j \in 1..(MaxSlots + 1) : FreezeWrite(id, j)

FreezeSpec == FreezeInit /\ [][FreezeNext]_vars

FreezeFairSpec == FreezeSpec /\ WF_vars(FreezeStep)

---------------------------------------------------------------------------
(* Vocabulary of the properties *)

\* The last finished top-level call.
LastCall == calls[Len(calls)]

\* A value that is not a reference to a container.
NonObject(val) == val.t # "ref"

\* The slots of the containers reachable from val, as <<identity, index>>.
Slots(h, val) ==
    {sl \in Reach(h, val) \X (1..(MaxSlots + 2)) : sl[2] <= Len(h[sl[1]].props)}

\* The value a slot holds.
SlotVal(h, sl) == h[sl[1]].props[sl[2]].v

\* Some container reachable from val can reach itself.
Cyclic(h, val) ==
    \E sl \in Slots(h, val) :
        IsRef(SlotVal(h, sl)) /\ sl[1] \in Reach(h, SlotVal(h, sl))

\* Some container reachable from val is held by two slots, or by a slot and
\* by val itself.
Shared(h, val) ==
    \/ \E sl, sm \in Slots(h, val) :
          sl # sm /\ IsRef(SlotVal(h, sl)) /\ SlotVal(h, sl) = SlotVal(h, sm)
    \/ \E sl \in Slots(h, val) : SlotVal(h, sl) = val

\* The pairs of values one step below a pair of containers: slot j of the
\* one with slot j of the other.
Below(h, pr) ==
    IF IsRef(pr[1]) /\ IsRef(pr[2])
    THEN {<<h[pr[1].v].props[j].v, h[pr[2].v].props[j].v>> :
            j \in 1..(IF Len(h[pr[1].v].props) < Len(h[pr[2].v].props)
                      THEN Len(h[pr[1].v].props) ELSE Len(h[pr[2].v].props))}
    ELSE {}

RECURSIVE Closure(_, _)
Closure(h, prs) ==
    LET more == prs \cup UNION {Below(h, pr) : pr \in prs}
    IN  IF more = prs THEN prs ELSE Closure(h, more)

\* Every <<x, y>> with x and y at the end of one access path from a and b.
Corr(h, a, b) == Closure(h, {<<a, b>>})

\* x and y agree on what structural comparison sees at one position: equal
\* primitives, or containers of one kind with the same keys in the same
\* order.
Match(h, x, y) ==
    IF IsRef(x)
    THEN /\ IsRef(y)
         /\ h[x.v].kind = h[y.v].kind
         /\ Len(h[x.v].props) = Len(h[y.v].props)
         /\ \A j \in 1..Len(h[x.v].props) : h[x.v].props[j].k = h[y.v].props[j].k
    ELSE x = y

RECURSIVE DeepEqual(_, _, _)
\* Structural comparison of two values, by recursion on the first.
DeepEqual(h, x, y) ==
    /\ Match(h, x, y)
    /\ IsRef(x) =>
         \A j \in 1..Len(h[x.v].props) :
            DeepEqual(h, h[x.v].props[j].v, h[y.v].props[j].v)

\* Deep equality that also compares the sharing and the cycles: the access
\* paths of a and b lead to matching values, and two paths meet in a iff
\* they meet in b.
SameGraph(h, a, b) ==
    /\ \A pr \in Corr(h, a, b) : Match(h, pr[1], pr[2])
    /\ \A pr, qr \in Corr(h, a, b) :
          (IsRef(pr[1]) /\ IsRef(qr[1])) => ((pr[1] = qr[1]) <=> (pr[2] = qr[2]))

RECURSIVE Walk(_, _, _, _)
\* The value at the end of the first n steps of path from val; Undefined
\* where the path leaves the graph.
Walk(h, val, path, n) ==
    IF n = 0 THEN val
    ELSE LET at == Walk(h, val, path, n - 1)
         IN  IF IsRef(at) /\ path[n] <= Len(h[at.v].props)
             THEN h[at.v].props[path[n]].v
             ELSE Undefined

\* path leads from container id back to it through Len(path) different
\* containers.
IsCycle(h, id, path) ==
    /\ \A n \in 1..Len(path) : IsRef(Walk(h, Ref(id), path, n))
    /\ Walk(h, Ref(id), path, Len(path)) = Ref(id)
    /\ \A m, n \in 0..(Len(path) - 1) :
          m # n => Walk(h, Ref(id), path, m) # Walk(h, Ref(id), path, n)

RECURSIVE CyclesFrom(_, _, _, _, _)
\* The paths that extend path, which leads from container id to container at
\* through the containers in passed, into a cycle through id that meets no
\* container twice.
CyclesFrom(h, id, at, path, passed) ==
    UNION {LET val == h[at].props[j].v
           IN  IF ~IsRef(val) THEN {}
               ELSE IF val.v = id THEN {Append(path, j)}
               ELSE IF val.v \in passed THEN {}
               ELSE CyclesFrom(h, id, val.v, Append(path, j), passed \cup {val.v}) :
           j \in 1..Len(h[at].props)}

\* The cycles through container id, each as the path of slots it follows.
SimpleCycles(h, id) == CyclesFrom(h, id, id, <<>>, {id})

\* The containers that hold the value the script writes on line 726.
Marked(h) ==
    {id \in DOMAIN h : \E j \in 1..Len(h[id].props) : h[id].props[j].v = Marker}

---------------------------------------------------------------------------
(* Properties *)

\* C1 Independence: when deepClone(V) has returned r, no container
\* reachable from r is a container reachable from V, and a step that
\* changes a container of r changes no container of V, and a step that
\* changes a container of V changes no container of r.
Independence ==
    [][phase = "done" =>
        LET src == Reach(heap, LastCall.arg)
            cpy == Reach(heap, LastCall.ret)
            changed == {id \in DOMAIN heap : heap'[id] # heap[id]}
        IN  /\ src \cap cpy = {}
            /\ (changed \cap cpy # {}) => (changed \cap src = {})
            /\ (changed \cap src # {}) => (changed \cap cpy = {})]_vars

\* The script has written into a container of the clone of a graph with
\* nested containers.
IndependenceWitness ==
    /\ phase = "mutated"
    /\ Cardinality(Reach(heap, root)) >= 2
    /\ Marked(heap) # {}
    /\ Marked(heap) \subseteq Reach(heap, calls[1].ret)

\* C2 Aliasing preservation: when deepClone(V) has returned r, two access
\* paths that lead to one container in V exist in r and lead to one
\* container there.
AliasingPreserved ==
    phase = "done" =>
        \A pr, qr \in Corr(heap, LastCall.arg, LastCall.ret) :
            IsRef(pr[1]) =>
               /\ IsRef(pr[2])
               /\ Len(heap[pr[2].v].props) = Len(heap[pr[1].v].props)
               /\ (pr[1] = qr[1]) => (pr[2] = qr[2])

\* A clone of a graph in which two slots hold the same container, which is
\* on no cycle.
AliasingWitness ==
    /\ phase = "done"
    /\ ~Cyclic(heap, LastCall.arg)
    /\ Shared(heap, LastCall.arg)

PrimitivePassThrough ==
    (NonObject(arg) /\ phase \in {"done", "threw"}) =>
        /\ phase = "done"
        /\ LastCall.ret = arg
        /\ allocs = <<>>
        /\ heap = <<>>

\* deepClone(null) has returned.
PassThroughWitness ==
    /\ phase = "done"
    /\ arg = Null
    /\ LastCall = [arg |-> Null, ret |-> Null]

InputNeverMutated ==
    [][phase = "running" =>
        \A id \in Reach(heap, arg) : heap'[id] = heap[id]]_vars

\* A call on a graph of MaxNodes containers has returned.
InputWitness ==
    /\ phase = "done"
    /\ Cardinality(Reach(heap, LastCall.arg)) = MaxNodes
    /\ Len(allocs) = MaxNodes

\* C9 Cloned exactly once: a call allocates at most one container for a
\* source container, the visited map holds that container for it from then
\* on, and when the call returns it has allocated one container for each
\* container reachable from its argument and nothing else.
ClonedExactlyOnce ==
    /\ \A m, n \in 1..Len(allocs) : allocs[m][1] = allocs[n][1] => m = n
    /\ \A n \in 1..Len(allocs) :
          /\ allocs[n][1] \in DOMAIN seen
          /\ seen[allocs[n][1]] = allocs[n][2]
          /\ allocs[n][2] = Len(heap) - Len(allocs) + n
    /\ phase = "done" =>
          /\ {allocs[n][1] : n \in 1..Len(allocs)} = Reach(heap, LastCall.arg)
          /\ Len(allocs) = Cardinality(Reach(heap, LastCall.arg))

\* A call on a graph in which one container is reached twice has returned.
OnceWitness ==
    /\ phase = "done"
    /\ Shared(heap, LastCall.arg)
    /\ Len(allocs) >= 2

\* C10 Registration order: an invocation that has begun its loop has its
\* new container in the visited map under its source container; and an
\* invocation entered on a source container that the call has cloned before
\* returns next, handing its caller the clone allocated for that container.
RegistrationOrder ==
    [][phase = "running" =>
        /\ \A n \in 1..Len(stack) :
              stack[n].pc = "loop" =>
                 /\ stack[n].value.v \in DOMAIN seen
                 /\ Ref(seen[stack[n].value.v]) = stack[n].out
        /\ \A n \in 1..Len(allocs) :
              (Top.pc = "entry" /\ Top.value = Ref(allocs[n][1])) =>
                 /\ Len(stack) >= 2
                 /\ Len(stack') = Len(stack) - 1
                 /\ allocs' = allocs
                 /\ LET f == stack[Len(stack) - 1]
                        made == heap'[f.out.v].props
                    IN  /\ Len(made) = f.i
                        /\ made[f.i].v = Ref(allocs[n][2])]_vars

\* An invocation has been entered on the container whose loop an invocation
\* below it on the stack is running.
RegistrationWitness ==
    /\ phase = "running"
    /\ Top.pc = "entry"
    /\ \E n \in 1..(Len(stack) - 1) :
          stack[n].pc = "loop" /\ stack[n].value = Top.value

RECURSIVE PathFrom(_, _, _)
\* The number of containers on the longest path that starts at container id
\* and meets no container of passed (id among them) again.
PathFrom(h, id, passed) ==
    LET onward == {h[id].props[j].v.v : j \in {k \in 1..Len(h[id].props) :
                      IsRef(h[id].props[k].v) /\ h[id].props[k].v.v \notin passed}}
        lens == {PathFrom(h, c, passed \cup {c}) : c \in onward}
    IN  1 + (IF lens = {} THEN 0 ELSE CHOOSE m \in lens : \A n \in lens : n <= m)

\* The number of containers on the longest cycle-free path from val.
LongestPath(h, val) == IF IsRef(val) THEN PathFrom(h, val.v, {val.v}) ELSE 0

\* C11 Container kind preserved: every container deepClone allocates for an
\* array is an array and every one it allocates for a key-value mapping is
\* a key-value mapping, and in the value it returns each position, the root
\* and every nested one, holds a container of the kind the argument holds
\* there.
ContainerKindPreserved ==
    /\ \A n \in 1..Len(allocs) :
          heap[allocs[n][1]].kind \in {"array", "object"} =>
             heap[allocs[n][2]].kind = heap[allocs[n][1]].kind
    /\ phase = "done" =>
          \A pr \in Corr(heap, LastCall.arg, LastCall.ret) :
             (IsRef(pr[1]) /\ heap[pr[1].v].kind \in {"array", "object"}) =>
                (IsRef(pr[2]) /\ heap[pr[2].v].kind = heap[pr[1].v].kind)

\* The clone of an array that holds an object that holds an array.
KindWitness ==
    /\ phase = "done"
    /\ LastCall.arg = Ref(1)
    /\ IsRef(LastCall.ret)
    /\ heap[1].kind = "array"
    /\ heap[LastCall.ret.v].kind = "array"
    /\ \E sl, sm \in Slots(heap, Ref(1)) :
          /\ sl[1] = 1 /\ IsRef(SlotVal(heap, sl))
          /\ heap[SlotVal(heap, sl).v].kind = "object"
          /\ sm[1] = SlotVal(heap, sl).v /\ IsRef(SlotVal(heap, sm))
          /\ heap[SlotVal(heap, sm).v].kind = "array"
          /\ SlotVal(heap, sm).v # 1

\* C12 The visited map is local to one top-level call: while a call runs
\* its map holds only what that call registered; and two calls on the same
\* container return different values whose graphs share no container, the
\* later one having cloned every container of the argument again.
VisitedMapLocal ==
    /\ phase = "running" =>
          \A id \in DOMAIN seen :
             \E n \in 1..Len(allocs) : allocs[n] = <<id, seen[id]>>
    /\ phase = "done" =>
          \A c, d \in 1..Len(calls) :
             (c < d /\ IsRef(calls[c].arg) /\ calls[c].arg = calls[d].arg) =>
                /\ calls[c].ret # calls[d].ret
                /\ Reach(heap, calls[c].ret) \cap Reach(heap, calls[d].ret) = {}
                /\ d = Len(calls) =>
                      /\ SameGraph(heap, calls[d].arg, calls[d].ret)
                      /\ Len(allocs) = Cardinality(Reach(heap, calls[d].arg))

\* Two calls on one graph of MaxNodes containers have returned.
LocalWitness ==
    /\ phase = "done"
    /\ Len(calls) = 2
    /\ calls[1].arg = root
    /\ calls[2].arg = root
    /\ Cardinality(Reach(heap, root)) = MaxNodes
    /\ Cardinality(Reach(heap, calls[2].ret)) = MaxNodes

\* C14 Recursion depth bound: while a call runs, the number of active
\* invocations is at most one more than the number of containers on the
\* longest cycle-free path from the call's argument.
RecursionDepthBound ==
    phase = "running" => Len(stack) <= 1 + LongestPath(heap, arg)

\* The bound is met in a call on a graph with a cycle through MaxNodes
\* containers.
DepthWitness ==
    /\ phase = "running"
    /\ Cyclic(heap, arg)
    /\ LongestPath(heap, arg) = MaxNodes
    /\ Len(stack) = 1 + MaxNodes

\* A value that is neither a primitive nor an array nor a plain object: a
\* function, a Date, a Uint8Array.
Exotic(h, val) ==
    \/ val = Fn
    \/ IsRef(val) /\ h[val.v].kind \in ExoticKinds

\* C13 Opaque pass-through: wherever the argument of a call holds a value
\* that is not a plain container (a function, a Date, a Uint8Array), the
\* value the call returns holds that same value, the same identity.
OpaquePassThrough ==
    phase = "done" =>
        \A pr \in Corr(heap, LastCall.arg, LastCall.ret) :
            Exotic(heap, pr[1]) => pr[2] = pr[1]

RECURSIVE Net(_, _)
\* Increments minus decrements among the first n calls of a log.
Net(log, n) ==
    IF n = 0 THEN 0
    ELSE Net(log, n - 1) + (CASE log[n].op = "increment" -> 1
                              [] log[n].op = "decrement" -> -1
                              [] OTHER -> 0)

\* The methods called on a counter, in order.
OpsOf(c) == [n \in 1..Len(c.log) |-> c.log[n].op]

\* What the calls on a counter returned, in order.
RetsOf(c) == [n \in 1..Len(c.log) |-> c.log[n].ret]

\* C15 Counter arithmetic: for a counter made by createCounterAdvanced(n),
\* what getCount() answers is n plus the increments minus the decrements
\* made so far, and every call of increment, decrement or getCount returned
\* n plus the increments minus the decrements up to and including it.
CounterArithmetic ==
    \A id \in 1..Len(counters) :
        counters[id].kind = "advanced" =>
           /\ ReadCount(id) = counters[id].init + Net(counters[id].log, Len(counters[id].log))
           /\ \A n \in 1..Len(counters[id].log) :
                 counters[id].log[n].ret = counters[id].init + Net(counters[id].log, n)

\* A counter made by createCounterAdvanced(5) after an increment, two
\* decrements and a getCount.
ArithmeticWitness ==
    \E id \in 1..Len(counters) :
        /\ counters[id].kind = "advanced"
        /\ counters[id].init = 5
        /\ OpsOf(counters[id]) = <<"increment", "decrement", "decrement", "getCount">>
        /\ RetsOf(counters[id]) = <<6, 5, 4, 4>>

\* C16 Counter isolation: a step that calls no method on a counter leaves
\* what getCount() answers on that counter as it was.
CounterIsolation ==
    [][\A id \in 1..Len(counters) :
          counters'[id].log = counters[id].log => ReadCount(id)' = ReadCount(id)]_vars

\* Two counters made with the same argument have come apart, for two
\* WeakMap counters and for two closure counters.
IsolationWitness ==
    /\ Len(counters) = 2
    /\ counters[1].kind = counters[2].kind
    /\ counters[1].init = counters[2].init
    /\ Len(counters[1].log) >= 2
    /\ Len(counters[2].log) >= 1
    /\ ReadCount(1) # ReadCount(2)

\* C17 Counter equivalence: a closure counter and a WeakMap counter made
\* with the same initial value and called with the same methods in the
\* same order have returned the same values, and getCount() answers the
\* same on both.
CounterEquivalence ==
    \A id, jd \in 1..Len(counters) :
        (/\ counters[id].kind = "closure"
         /\ counters[jd].kind = "advanced"
         /\ counters[id].init = counters[jd].init
         /\ OpsOf(counters[id]) = OpsOf(counters[jd])) =>
            /\ RetsOf(counters[id]) = RetsOf(counters[jd])
            /\ ReadCount(id) = ReadCount(jd)

\* A closure counter and a WeakMap counter after the same two calls.
EquivalenceWitness ==
    \E id, jd \in 1..Len(counters) :
        /\ counters[id].kind = "closure"
        /\ counters[jd].kind = "advanced"
        /\ counters[id].init = counters[jd].init
        /\ OpsOf(counters[id]) = <<"decrement", "getCount">>
        /\ OpsOf(counters[jd]) = <<"decrement", "getCount">>

---------------------------------------------------------------------------
(* The chain of responsibility *)

\* The chain from handler h on, in the order of the next links.
RECURSIVE ChainFrom(_)
ChainFrom(h) == IF h = 0 THEN <<>> ELSE <<h>> \o ChainFrom(handlers[h].next)

\* Handler h is of the subclass made for the type of the request.
Accepts(h) ==
    /\ request \in {Request("email"), Request("phone"), Request("chat")}
    /\ handlers[h].cls =
         (CASE request.v = "email" -> "EmailHandler"
            [] request.v = "phone" -> "PhoneHandler"
            [] request.v = "chat"  -> "ChatHandler")

\* The positions of the chain whose handler accepts the request.
Accepting == {i \in 1..Len(ChainFrom(consulted[1])) :
                 Accepts(ChainFrom(consulted[1])[i])}

FirstAccepting == CHOOSE i \in Accepting : \A j \in Accepting : i <= j

\* C18: a handle call on the first handler of an acyclic chain, with any
\* request, ends with exactly one line logged: "handled" by the first
\* handler of the chain that can handle the request, no handler after it
\* having been consulted, or "Request could not be handled" when no handler
\* of the chain can handle it.
ChainOutcome ==
    hphase \in {"done", "threw"} =>
        /\ Len(console) = 1
        /\ IF Accepting # {}
           THEN /\ console[1] = [text |-> "handled",
                                  by |-> ChainFrom(consulted[1])[FirstAccepting]]
                /\ consulted = SubSeq(ChainFrom(consulted[1]), 1, FirstAccepting)
           ELSE console[1].text = "Request could not be handled"

\* The same, for the requests whose type can be read.
ChainOutcomeReadable ==
    (hphase \in {"done", "threw"} /\ request \notin {Null, Undefined})
        => ChainOutcome

---------------------------------------------------------------------------
(* simulateNew *)

\* Both evaluations of the chosen construction have ended.
BothEnded == sim.pc \in {"done", "threw"} /\ native.pc \in {"done", "threw"}

\* C19: for every ordinary constructor function, simulateNew ends as new
\* does: the constructor has run once on a fresh object linked to the
\* function's prototype property, and the result is the value the
\* constructor returned when that is an object or a function, and the fresh
\* object (equal up to identity on both sides) otherwise.
SimulateNewEquivalent ==
    BothEnded =>
        /\ sim.pc = native.pc
        /\ sim.ran = 1
        /\ native.ran = 1
        /\ sim.out = native.out
        /\ sim.obj.proto = fn.prototype
        /\ sim.out = IF fn.ret \in {ReturnedObject, ReturnedFunction}
                      THEN fn.ret ELSE sim.obj

\* The same, for the functions whose prototype property is an object.
SimulateNewEquivalentOnObjects ==
    (BothEnded /\ fn.prototype = OwnPrototype) => SimulateNewEquivalent

---------------------------------------------------------------------------
(* safeMerge *)

\* The value of the own property key of a property list.
OwnValue(ps, key) == ps[CHOOSE j \in 1..Len(ps) : ps[j].k = key].v

OwnKeys(ps) == {ps[j].k : j \in 1..Len(ps)}

\* The own keys of the source that the merge has to copy.
Copied == OwnKeys(mcall.source.props) \ {"__proto__", "constructor"}

\* C20: once a safeMerge call is over, no key named __proto__ or
\* constructor and no inherited key has been assigned, the prototype link of
\* the target and Object.prototype are as before, the target has the
\* source's value under every other own key of the source, and its other
\* keys are as they were.
SafeMergeContract ==
    mpc \in {"done", "threw"} =>
        /\ \A i \in 1..Len(massigned) :
              /\ massigned[i] \notin {"__proto__", "constructor"}
              /\ massigned[i] \in OwnKeys(mcall.source.props)
        /\ mtarget.proto = mcall.target0.proto
        /\ objectProto = <<>>
        /\ \A k \in Copied :
              /\ k \in OwnKeys(mtarget.props)
              /\ OwnValue(mtarget.props, k) = OwnValue(mcall.source.props, k)
        /\ OwnKeys(mtarget.props) = OwnKeys(mcall.target0.props) \cup Copied
        /\ \A k \in OwnKeys(mcall.target0.props) \ Copied :
              OwnValue(mtarget.props, k) = OwnValue(mcall.target0.props, k)

\* The same, for the definition that calls Object.prototype.hasOwnProperty.
SafeMergeContractGuarded ==
    (mpc \in {"done", "threw"} /\ mcall.version = "part_001") => SafeMergeContract

---------------------------------------------------------------------------
(* unsafeMerge *)

\* JSON.parse('{"__proto__": {"isAdmin": true}}')
Malicious ==
    [proto |-> "Object.prototype", props |-> <<[k |-> "__proto__", v |-> Payload]>>]

\* unsafeMerge(user, malicious) has returned, user having been a new {}.
Attacked ==
    /\ mpc = "done"
    /\ mcall.target0 = EmptyObject
    /\ mcall.source = Malicious

\* What an object created after the call, unrelated to user, reads as isAdmin.
LaterIsAdmin == Get(EmptyObject, "isAdmin", objectProto)

\* C21, as stated: after unsafeMerge(user, malicious) Object.prototype has
\* isAdmin true, so that an object created afterwards reads isAdmin as true.
PollutionOfObjectPrototype ==
    Attacked =>
        /\ \E j \in 1..Len(objectProto) :
              objectProto[j] = [k |-> "isAdmin", v |-> Bool(TRUE)]
        /\ LaterIsAdmin = Bool(TRUE)

\* What the call does instead: the prototype link of user points to the parsed { isAdmin: true } object and user has gained no
\* own property, so user reads isAdmin as true; Object.prototype has no
\* isAdmin and an object created afterwards reads isAdmin as undefined.
PollutionOfTargetOnly ==
    Attacked =>
        /\ mtarget.proto = Payload.v
        /\ mtarget.props = <<>>
        /\ Get(mtarget, "isAdmin", objectProto) = Bool(TRUE)
        /\ objectProto = <<>>
        /\ LaterIsAdmin = Undefined


---------------------------------------------------------------------------
(* deepFreeze *)

\* C22: deepFreeze(obj) returns obj, after it has returned obj and every
\* object reachable from it is frozen, and a later write to a property of
\* any of them leaves every stored value as it was.
DeepFrozen ==
    /\ fphase \in {"done", "written"} =>
          /\ fcall.ret = Ref(1)
          /\ Reach(fcall.heap0, Ref(1)) \subseteq frozen
    /\ fphase = "written" => objs = fcall.heap0

\* The same, for the calls that found no object frozen already.
DeepFrozenFromUnfrozen ==
    fcall.frozen0 = {} => DeepFrozen

\* No object of the graph is frozen when deepFreeze is called.
AllUnfrozen == fphase = "running" /\ fcall.frozen0 = {}

\* C23: a deepFreeze call on a graph whose objects are all unfrozen
\* returns, whether the graph has shared objects or cycles.
FreezeTerminates == AllUnfrozen ~> (fphase = "done")

\* The same, for the graphs without a cycle.
FreezeTerminatesAcyclic ==
    (AllUnfrozen /\ ~Cyclic(objs, Ref(1))) ~> (fphase = "done")

=============================================================================
